---- MODULE Spec2Model ----
(***************************************************************************)
(* NCERT voice tutor: the FAISS vector store (backend/rag/vector_store.py) *)
(* and the handlers of backend/main.py that drive it.                      *)
(*                                                                         *)
(* The module-level state of vector_store.py is the pair (_index,          *)
(* _metadata); its persisted form is the pair of files (index.faiss,       *)
(* metadata.json).  Every function of the store is modelled as a small     *)
(* program over that state: one step per statement that reads or writes    *)
(* the shared state.  The sequential specifications run a call to its end  *)
(* in one action; the concurrent specification interleaves the steps.      *)
(***************************************************************************)
EXTENDS Integers, Sequences, FiniteSets, TLC

VARIABLES
    index,          \* _index
    metadata,       \* _metadata
    indexFile,      \* the file at INDEX_PATH
    metadataFile,   \* the file at METADATA_PATH
    frame,          \* per thread of the process: the call it runs, or ran last
    response,       \* the response of the last HTTP handler that ran
    model           \* _model of the embedder, and how often it was constructed

vars == <<index, metadata, indexFile, metadataFile, frame, response, model>>

(***************************************************************************)
(* Bounds of the model.                                                    *)
(***************************************************************************)
MaxVectors == 2     \* rows the index may hold before adds are no longer offered
MaxBatch == 2       \* rows / metadata entries of one add_to_index call
MaxTopK == 2        \* largest top_k handed to search
MaxPages == 2       \* physical pages of an uploaded document
MaxPieces == 2      \* pieces the text splitter cuts one page into
MaxScan == 3        \* physical pages of a document handed to the extractor alone

Dims == {1, 2}      \* widths of the embedding arrays offered to the store

\* the rows of width d offered to the store by a direct caller
Rows(d) == {[i \in 1..d |-> 0]}

SeqsUpTo(S, n) == UNION {[1..k -> S] : k \in 0..n}

(***************************************************************************)
(* Values.                                                                 *)
(***************************************************************************)
\* numpy array of shape (n, d): the rows, each of width d
Arrays == UNION {{[d |-> d, rows |-> r] : r \in SeqsUpTo(Rows(d), MaxBatch)} : d \in Dims}

\* the text of a chunk: the cleaned page text it was cut from and the piece number
Text(src, piece) == [src |-> src, piece |-> piece]

Chunk(text, page, chunk_id, pdf_name) ==
    [text |-> text, page |-> page, chunk_id |-> chunk_id, pdf_name |-> pdf_name]

PdfNames == {"a.pdf", "b.pdf"}

\* the metadata lists offered to add_to_index by a direct caller: m chunks of
\* one document, numbered as chunk_pages numbers them
ChunkBatch(name, m) == [i \in 1..m |-> Chunk(Text(<<"x">>, i), 1, i - 1, name)]
Batches == {ChunkBatch("a.pdf", m) : m \in 0..MaxBatch}

\* _index: None, or an IndexFlatL2 of dimension d holding the rows vecs
None == [exists |-> FALSE, d |-> 0, vecs |-> <<>>]
\* a path that does not exist
NoFile == [exists |-> FALSE, ok |-> FALSE, d |-> 0, vecs |-> <<>>, entries |-> <<>>]
\* a file that exists and cannot be deserialized (a torn write)
TornFile == [exists |-> TRUE, ok |-> FALSE, d |-> 0, vecs |-> <<>>, entries |-> <<>>]

IndexFileOf(ix) == [exists |-> TRUE, ok |-> TRUE, d |-> ix.d, vecs |-> ix.vecs, entries |-> <<>>]
MetadataFileOf(m) == [exists |-> TRUE, ok |-> TRUE, d |-> 0, vecs |-> <<>>, entries |-> m]

\* _index.ntotal
ntotal(ix) == Len(ix.vecs)


(***************************************************************************)
(* The FAISS library calls the store makes.                                *)
(***************************************************************************)
\* faiss.IndexFlatL2(dim)
IndexFlatL2(dim) == [exists |-> TRUE, d |-> dim, vecs |-> <<>>]

FaissAddAcceptsAnyWidth(ix, emb) == TRUE

\* index.add(x) raises unless x.shape[1] == index.d
FaissAddAccepts(ix, emb) == emb.d = ix.d

\* index.add(x): the rows are appended in input order
FaissAdd(ix, emb) == [ix EXCEPT !.vecs = @ \o emb.rows]

\* squared L2 distance, as IndexFlatL2 reports it
RECURSIVE SqDist(_, _)
SqDist(u, v) ==
    IF Len(u) = 0 THEN 0
    ELSE (Head(u) - Head(v)) * (Head(u) - Head(v)) + SqDist(Tail(u), Tail(v))

\* the stored position (0-based) nearest to q among the positions of S;
\* equal distances are reported in position order
Nearest(ix, q, S) ==
    CHOOSE i \in S : \A j \in S :
        \/ SqDist(ix.vecs[i + 1], q) < SqDist(ix.vecs[j + 1], q)
        \/ SqDist(ix.vecs[i + 1], q) = SqDist(ix.vecs[j + 1], q) /\ i <= j

\* index.search(q, k): k (distance, label) pairs, nearest first, padded with
\* label -1 when the index holds fewer than k rows
RECURSIVE FaissSearchFrom(_, _, _, _)
FaissSearchFrom(ix, q, k, S) ==
    IF k = 0 THEN <<>>
    ELSE IF S = {} THEN <<[dist |-> -1, idx |-> -1]>> \o FaissSearchFrom(ix, q, k - 1, S)
    ELSE LET i == Nearest(ix, q, S)
         IN  <<[dist |-> SqDist(ix.vecs[i + 1], q), idx |-> i]>>
                 \o FaissSearchFrom(ix, q, k - 1, S \ {i})

FaissSearch(ix, q, k) == FaissSearchFrom(ix, q, k, 0..(ntotal(ix) - 1))

(***************************************************************************)
(* A call in progress: the store it runs on (s) and its frame (f).  The    *)
(* frame holds the function called (op), the next statement (at), the      *)
(* arguments, the locals, the value returned and how the call ended.       *)
(***************************************************************************)
Store(ix, m, xf, mf) == [index |-> ix, metadata |-> m, indexFile |-> xf, metadataFile |-> mf]

\* an I/O fault planned for one statement of the call: the statement raises
\* ("error") or the process dies there ("crash"); torn tells whether the
\* write had begun, leaving a truncated file
NoFault == [at |-> "never", kind |-> "none", torn |-> FALSE]
WriteSteps == {"write_index", "write_metadata"}
RemoveSteps == {"remove_index", "remove_metadata"}
Faults ==
    {NoFault}
      \cup {[at |-> a, kind |-> k, torn |-> t] :
                a \in WriteSteps, k \in {"error", "crash"}, t \in BOOLEAN}
      \cup {[at |-> a, kind |-> k, torn |-> FALSE] :
                a \in RemoveSteps, k \in {"error", "crash"}}

EmptyArray == [d |-> 1, rows |-> <<>>]

\* Optional[str]: None, or a string
NoFilter == [none |-> TRUE, name |-> ""]
Filter(name) == [none |-> FALSE, name |-> name]

\* an uploaded file that is not there
NoDocument == [filename |-> "", parses |-> FALSE, pages |-> <<>>]

Idle == [op |-> "none", at |-> "done", status |-> "ok", emb |-> EmptyArray, meta |-> <<>>,
         q |-> <<>>, k |-> 0, hits |-> <<>>, results |-> <<>>, size |-> 0, pdfs |-> {},
         fault |-> NoFault,
         query |-> Text(<<>>, 0), top_k |-> 0, threshold |-> 0, pdf_filter |-> NoFilter,
         filtered |-> <<>>,
         doc |-> NoDocument, pages_data |-> <<>>,
         built |-> 0, used |-> 0,
         agentic |-> FALSE, importable |-> TRUE, split |-> <<>>, oracle |-> <<>>,
         chunks |-> <<>>, paragraphs |-> <<>>, judge |-> <<>>, merged |-> <<>>,
         text |-> <<>>, engine |-> "", failing |-> {}, tried |-> <<>>, engine_used |-> "",
         raised |-> ""]

\* _ensure_loaded() is the first statement of every function but clear_index
Call(op) == [Idle EXCEPT !.op = op, !.status = "running",
                         !.at = IF op = "clear_index" THEN "clear_index" ELSE "load_index"]

CallAdd(emb, meta, fault) == [Call("add_to_index") EXCEPT !.emb = emb, !.meta = meta, !.fault = fault]
CallSearch(q, k) == [Call("search") EXCEPT !.q = q, !.k = k]
CallClear(fault) == [Call("clear_index") EXCEPT !.fault = fault]

\* the statement that follows _ensure_loaded() in each function
Body(op) ==
    CASE op = "add_to_index" -> "create"
      [] op = "search" -> "check_empty"
      [] op = "get_index_size" -> "read_size"
      [] op = "get_indexed_pdfs" -> "read_pdfs"
      [] op = "_ensure_loaded" -> "return"

Goto(c, at) == [c EXCEPT !.f.at = at]
\* a planned fault that was not met never happened
Return(c) == [c EXCEPT !.f.at = "done", !.f.status = "ok", !.f.fault = NoFault]
Raise(c) == [c EXCEPT !.f.at = "done", !.f.status = "error",
                      !.f.fault = IF @.at = c.f.at THEN @ ELSE NoFault]
\* the process dies: the module state of the next process is the initial one
Die(c) == [c EXCEPT !.f.at = "done", !.f.status = "crashed",
                    !.s.index = None, !.s.metadata = <<>>]


(***************************************************************************)
(* The statements of vector_store.py, each a function of the call state.   *)
(***************************************************************************)
LoadIndexIfPresent(c) ==
    IF c.s.index.exists THEN Goto(c, Body(c.f.op))
    ELSE IF c.s.indexFile.exists
         THEN IF c.s.indexFile.ok
              THEN [Goto(c, Body(c.f.op)) EXCEPT
                       !.s.index = [exists |-> TRUE, d |-> c.s.indexFile.d,
                                    vecs |-> c.s.indexFile.vecs]]
              ELSE Raise(c)
         ELSE Goto(c, Body(c.f.op))

\* _ensure_loaded, lines 34-36: nothing is read unless _index is None and
\* both paths exist; faiss.read_index raises on a file it cannot parse
LoadIndex(c) ==
    IF c.s.index.exists THEN Goto(c, Body(c.f.op))
    ELSE IF c.s.indexFile.exists /\ c.s.metadataFile.exists
         THEN IF c.s.indexFile.ok
              THEN [Goto(c, "load_metadata") EXCEPT
                       !.s.index = [exists |-> TRUE, d |-> c.s.indexFile.d,
                                    vecs |-> c.s.indexFile.vecs]]
              ELSE Raise(c)
         ELSE Goto(c, Body(c.f.op))

\* _ensure_loaded, lines 37-38: open() and json.load raise on a missing or
\* unparsable file
LoadMetadata(c) ==
    IF c.s.metadataFile.exists /\ c.s.metadataFile.ok
    THEN [Goto(c, Body(c.f.op)) EXCEPT !.s.metadata = c.s.metadataFile.entries]
    ELSE Raise(c)

\* add_to_index, lines 58-61
CreateIndex(c) ==
    IF ~c.s.index.exists
    THEN [Goto(c, "reset_metadata") EXCEPT !.s.index = IndexFlatL2(c.f.emb.d)]
    ELSE Goto(c, "faiss_add")

\* add_to_index, line 62
ResetMetadata(c) == [Goto(c, "faiss_add") EXCEPT !.s.metadata = <<>>]

\* add_to_index, line 65: None has no add; faiss rejects a wrong width
AppendVectors(c) ==
    IF c.s.index.exists /\ FaissAddAccepts(c.s.index, c.f.emb)
    THEN [Goto(c, "extend") EXCEPT !.s.index = FaissAdd(c.s.index, c.f.emb)]
    ELSE Raise(c)

\* add_to_index, line 66
ExtendMetadata(c) == [Goto(c, "write_index") EXCEPT !.s.metadata = @ \o c.f.meta]

\* what a faulty write or remove leaves of the call: the exception leaves the
\* function, or the process is gone
Fail(c) == IF c.f.fault.kind = "crash" THEN Die(c) ELSE Raise(c)

\* _save, lines 132-133
WriteIndex(c) ==
    IF ~c.s.index.exists THEN Goto(c, "write_metadata")
    ELSE IF c.f.fault.at = "write_index"
         THEN [Fail(c) EXCEPT !.s.indexFile = IF c.f.fault.torn THEN TornFile ELSE @]
         ELSE [Goto(c, "write_metadata") EXCEPT !.s.indexFile = IndexFileOf(c.s.index)]

WriteMetadataSkipped(c) ==
    IF c.f.fault.at = "write_metadata"
    THEN [Fail(c) EXCEPT !.s.metadataFile = IF c.f.fault.torn THEN TornFile ELSE @]
    ELSE Return(c)

\* _save, lines 134-135
WriteMetadata(c) ==
    IF c.f.fault.at = "write_metadata"
    THEN [Fail(c) EXCEPT !.s.metadataFile = IF c.f.fault.torn THEN TornFile ELSE @]
    ELSE [Return(c) EXCEPT !.s.metadataFile = MetadataFileOf(c.s.metadata)]

CheckEmptyNoneOnly(c) ==
    IF ~c.s.index.exists
    THEN [Return(c) EXCEPT !.f.results = <<>>]
    ELSE Goto(c, "faiss_search")

\* search, lines 86-88
CheckEmpty(c) ==
    IF ~c.s.index.exists \/ ntotal(c.s.index) = 0
    THEN [Return(c) EXCEPT !.f.results = <<>>]
    ELSE Goto(c, "faiss_search")

\* search, line 90: None has no search; faiss rejects a query of wrong width
SearchVectors(c) ==
    IF c.s.index.exists /\ Len(c.f.q) = c.s.index.d
    THEN [Goto(c, "collect") EXCEPT !.f.hits = FaissSearch(c.s.index, c.f.q, c.f.k)]
    ELSE Raise(c)

RECURSIVE CollectAllButLast(_, _)
CollectAllButLast(hits, m) ==
    IF hits = <<>> THEN <<>>
    ELSE LET h == Head(hits)
         IN  (IF h.idx # -1 /\ h.idx + 1 < Len(m)
              THEN <<[meta |-> m[h.idx + 1], dist |-> h.dist, pos |-> h.idx]>>
              ELSE <<>>) \o CollectAllButLast(Tail(hits), m)

\* search, lines 92-97: the hits with a label in range of _metadata.  pos is
\* not part of the returned pair: it records the label the entry was read at
RECURSIVE Collect(_, _)
Collect(hits, m) ==
    IF hits = <<>> THEN <<>>
    ELSE LET h == Head(hits)
         IN  (IF h.idx # -1 /\ h.idx < Len(m)
              THEN <<[meta |-> m[h.idx + 1], dist |-> h.dist, pos |-> h.idx]>>
              ELSE <<>>) \o Collect(Tail(hits), m)

\* search, lines 92-100
CollectResults(c) == [Return(c) EXCEPT !.f.results = Collect(c.f.hits, c.s.metadata)]

\* get_index_size, line 106
ReadSize(c) ==
    [Return(c) EXCEPT !.f.size = IF c.s.index.exists THEN ntotal(c.s.index) ELSE 0]

\* get_indexed_pdfs, lines 112-114
ReadPdfs(c) ==
    [Return(c) EXCEPT !.f.pdfs = {c.s.metadata[i].pdf_name : i \in 1..Len(c.s.metadata)}]

\* clear_index, line 120
ClearIndex(c) == [Goto(c, "clear_metadata") EXCEPT !.s.index = None]

ClearMetadataKept(c) == Goto(c, "remove_index")

\* clear_index, line 121
ClearMetadata(c) == [Goto(c, "remove_index") EXCEPT !.s.metadata = <<>>]

\* clear_index, lines 123-125, path = INDEX_PATH
RemoveIndex(c) ==
    IF ~c.s.indexFile.exists THEN Goto(c, "remove_metadata")
    ELSE IF c.f.fault.at = "remove_index" THEN Fail(c)
         ELSE [Goto(c, "remove_metadata") EXCEPT !.s.indexFile = NoFile]

RemoveMetadataSkipped(c) == Return(c)

\* clear_index, lines 123-125, path = METADATA_PATH
RemoveMetadata(c) ==
    IF ~c.s.metadataFile.exists THEN Return(c)
    ELSE IF c.f.fault.at = "remove_metadata" THEN Fail(c)
         ELSE [Return(c) EXCEPT !.s.metadataFile = NoFile]

\* one statement of the call
Step(c) ==
    CASE c.f.at = "load_index" -> LoadIndex(c)
      [] c.f.at = "load_metadata" -> LoadMetadata(c)
      [] c.f.at = "create" -> CreateIndex(c)
      [] c.f.at = "reset_metadata" -> ResetMetadata(c)
      [] c.f.at = "faiss_add" -> AppendVectors(c)
      [] c.f.at = "extend" -> ExtendMetadata(c)
      [] c.f.at = "write_index" -> WriteIndex(c)
      [] c.f.at = "write_metadata" -> WriteMetadata(c)
      [] c.f.at = "check_empty" -> CheckEmpty(c)
      [] c.f.at = "faiss_search" -> SearchVectors(c)
      [] c.f.at = "collect" -> CollectResults(c)
      [] c.f.at = "read_size" -> ReadSize(c)
      [] c.f.at = "read_pdfs" -> ReadPdfs(c)
      [] c.f.at = "clear_index" -> ClearIndex(c)
      [] c.f.at = "clear_metadata" -> ClearMetadata(c)
      [] c.f.at = "remove_index" -> RemoveIndex(c)
      [] c.f.at = "remove_metadata" -> RemoveMetadata(c)
      [] c.f.at = "return" -> Return(c)

\* the call run to its end with no other thread in between
RECURSIVE Run(_)
Run(c) == IF c.f.at = "done" THEN c ELSE Run(Step(c))


\* the call f made in the store s and run to its end
Outcome(s, f) == Run([s |-> s, f |-> f])

(***************************************************************************)
(* Text extraction (pdf_loader.py), chunking (chunker.py) and embedding    *)
(* (embedder.py).  A string is a sequence of characters.                   *)
(***************************************************************************)
IsSpace(ch) == ch \in {" ", "\n"}

\* str.strip()
RECURSIVE LStrip(_)
LStrip(str) == IF str # <<>> /\ IsSpace(Head(str)) THEN LStrip(Tail(str)) ELSE str

RECURSIVE RStrip(_)
RStrip(str) ==
    IF str # <<>> /\ IsSpace(str[Len(str)]) THEN RStrip(SubSeq(str, 1, Len(str) - 1)) ELSE str

Strip(str) == RStrip(LStrip(str))

\* str.split("\n"): acc is the line being read
RECURSIVE SplitLines(_, _)
SplitLines(str, acc) ==
    IF str = <<>> THEN <<acc>>
    ELSE IF Head(str) = "\n" THEN <<acc>> \o SplitLines(Tail(str), <<>>)
    ELSE SplitLines(Tail(str), Append(acc, Head(str)))

\* " ".join(lines)
RECURSIVE JoinSpace(_)
JoinSpace(lines) ==
    IF lines = <<>> THEN <<>>
    ELSE IF Len(lines) = 1 THEN lines[1]
    ELSE lines[1] \o <<" ">> \o JoinSpace(Tail(lines))

\* _clean_text: the stripped non-empty lines, joined by single spaces
CleanText(text) ==
    LET lines == SplitLines(text, <<>>)
        kept == SelectSeq([i \in 1..Len(lines) |-> Strip(lines[i])], LAMBDA l : l # <<>>)
    IN  JoinSpace(kept)

\* what page.extract_text() returns: None, or a string
NoText == [none |-> TRUE, chars |-> <<>>]
Str(chars) == [none |-> FALSE, chars |-> chars]
RawTexts == {NoText, Str(<<" ", "\n">>), Str(<<"x">>), Str(<<" ", "x", "\n", "y">>)}

\* an uploaded file: its name, whether pdfplumber can open it, and what
\* extract_text() returns for each physical page
Document(filename, parses, pages) == [filename |-> filename, parses |-> parses, pages |-> pages]
Documents ==
    {Document(n, TRUE, pp) : n \in PdfNames, pp \in SeqsUpTo(RawTexts, MaxPages)}
      \cup {Document(n, FALSE, <<>>) : n \in PdfNames}
      \cup {Document("notes.txt", TRUE, <<Str(<<"x">>)>>)}

RECURSIVE ExtractFromKeepsBlank(_, _, _)
ExtractFromKeepsBlank(pages, i, pdf_name) ==
    IF i > Len(pages) THEN <<>>
    ELSE (IF ~pages[i].none /\ pages[i].chars # <<>>
          THEN <<[page |-> i, text |-> CleanText(pages[i].chars), pdf_name |-> pdf_name]>>
          ELSE <<>>) \o ExtractFromKeepsBlank(pages, i + 1, pdf_name)

\* extract_text_from_pdf, lines 31-46: one entry per page with text
RECURSIVE ExtractFrom(_, _, _)
ExtractFrom(pages, i, pdf_name) ==
    IF i > Len(pages) THEN <<>>
    ELSE (IF ~pages[i].none /\ Strip(pages[i].chars) # <<>>
          THEN <<[page |-> i, text |-> CleanText(pages[i].chars), pdf_name |-> pdf_name]>>
          ELSE <<>>) \o ExtractFrom(pages, i + 1, pdf_name)

ExtractTextFromPdf(doc) == ExtractFrom(doc.pages, 1, doc.filename)

\* the counter _chunk_pages_simple starts from, line 60
FirstChunkId == 0

\* _chunk_pages_simple, lines 59-86.  split is the text splitter: the number
\* of pieces it cuts each text into; n is global_chunk_id
RECURSIVE ChunkFrom(_, _, _)
ChunkFrom(pages_data, split, n) ==
    IF pages_data = <<>> THEN <<>>
    ELSE LET p == Head(pages_data)
             k == IF Strip(p.text) = <<>> THEN 0 ELSE split[p.text]
         IN  [j \in 1..k |-> Chunk(Text(p.text, j), p.page, n + j - 1, p.pdf_name)]
                 \o ChunkFrom(Tail(pages_data), split, n + k)

ChunkPagesSimple(pages_data, split) == ChunkFrom(pages_data, split, FirstChunkId)

(***************************************************************************)
(* Agentic chunking (agentic_chunker.py, chunker.py).  A paragraph text is *)
(* told by its length and by the input paragraphs it is made of, in order. *)
(***************************************************************************)
MAX_CHUNK_SIZE == 1200

Para(len, of) == [len |-> len, of |-> of]

\* f"{current_chunk}\n\n{next_para}", line 117
Joined(current_chunk, next_para) ==
    Para(current_chunk.len + 2 + next_para.len, current_chunk.of \o next_para.of)

\* what the judge does when asked: the text of its response, or "raise" for
\* an exception of the call
Answers == {"YES", "yes.", "NO", "raise"}

\* str.upper() of a response text
Upper(answer) == IF answer = "yes." THEN "YES." ELSE answer

ShouldMergeUnlessNo(answer) == Upper(answer) # "NO"

\* should_merge_paragraphs, lines 66-87: "YES" in the upper-cased response;
\* False on an exception
ShouldMergeParagraphs(answer) ==
    IF answer = "raise" THEN FALSE ELSE Upper(answer) \in {"YES", "YES."}

\* merge_related_paragraphs, lines 113-135: the loop from paragraph i on and
\* the statements after it.  judge[i - 1] is what the judge does when asked
\* about paragraph i
RECURSIVE MergeFrom(_, _, _, _, _, _)
MergeFrom(paragraphs, judge, max_chunk_size, i, current_chunk, merged_chunks) ==
    IF i > Len(paragraphs)
    THEN IF current_chunk.len # 0 THEN Append(merged_chunks, current_chunk) ELSE merged_chunks
    ELSE LET next_para == paragraphs[i]
             potential_merge == Joined(current_chunk, next_para)
         IN  IF potential_merge.len > max_chunk_size
             THEN MergeFrom(paragraphs, judge, max_chunk_size, i + 1, next_para,
                            Append(merged_chunks, current_chunk))
             ELSE IF ShouldMergeParagraphs(judge[i - 1])
             THEN MergeFrom(paragraphs, judge, max_chunk_size, i + 1, potential_merge,
                            merged_chunks)
             ELSE MergeFrom(paragraphs, judge, max_chunk_size, i + 1, next_para,
                            Append(merged_chunks, current_chunk))

\* merge_related_paragraphs, lines 90-141
MergeRelatedParagraphs(paragraphs, judge, max_chunk_size) ==
    IF paragraphs = <<>> THEN <<>>
    ELSE IF Len(paragraphs) = 1 THEN paragraphs
    ELSE MergeFrom(paragraphs, judge, max_chunk_size, 2, paragraphs[1], <<>>)

RECURSIVE AgenticFromPerPage(_, _, _)
AgenticFromPerPage(pages_data, oracle, n) ==
    IF pages_data = <<>> THEN <<>>
    ELSE LET p == Head(pages_data)
             para_texts == IF Strip(p.text) = <<>> THEN <<>> ELSE oracle[p.text].paras
             merged_chunks_texts ==
                 IF oracle[p.text].raises THEN para_texts
                 ELSE MergeRelatedParagraphs(para_texts, oracle[p.text].judge, MAX_CHUNK_SIZE)
             k == IF para_texts = <<>> THEN 0 ELSE Len(merged_chunks_texts)
         IN  [j \in 1..k |-> Chunk(Text(p.text, j), p.page, n + j - 1, p.pdf_name)]
                 \o AgenticFromPerPage(Tail(pages_data), oracle, n)

\* _chunk_pages_agentic, lines 101-142.  oracle gives, for the text of a
\* page, the paragraphs detect_headings finds in it, what the judge does for
\* them, and whether merge_related_paragraphs raises; n is global_chunk_id
RECURSIVE AgenticFrom(_, _, _)
AgenticFrom(pages_data, oracle, n) ==
    IF pages_data = <<>> THEN <<>>
    ELSE LET p == Head(pages_data)
             para_texts == IF Strip(p.text) = <<>> THEN <<>> ELSE oracle[p.text].paras
             merged_chunks_texts ==
                 IF oracle[p.text].raises THEN para_texts
                 ELSE MergeRelatedParagraphs(para_texts, oracle[p.text].judge, MAX_CHUNK_SIZE)
             k == IF para_texts = <<>> THEN 0 ELSE Len(merged_chunks_texts)
         IN  [j \in 1..k |-> Chunk(Text(p.text, j), p.page, n + j - 1, p.pdf_name)]
                 \o AgenticFrom(Tail(pages_data), oracle, n + k)

\* _chunk_pages_agentic, lines 89-148: simple chunking when the import fails
ChunkPagesAgentic(pages_data, importable, split, oracle) ==
    IF ~importable THEN ChunkPagesSimple(pages_data, split)
    ELSE AgenticFrom(pages_data, oracle, FirstChunkId)

\* chunk_pages, lines 42-47; agentic is ENABLE_AGENTIC_CHUNKING
ChunkPagesOf(f) ==
    IF f.agentic THEN ChunkPagesAgentic(f.pages_data, f.importable, f.split, f.oracle)
    ELSE ChunkPagesSimple(f.pages_data, f.split)

\* the splitters of the texts of pages_data
Splitters(pages_data) ==
    [{pages_data[i].text : i \in 1..Len(pages_data)} -> 1..MaxPieces]

\* _model before the first call: None, constructed zero times
NoModel == [instance |-> 0, constructed |-> 0]

\* _get_model, lines 22-29, run by one caller with no other in between: the
\* model is constructed when _model is None
GetModel(m) ==
    IF m.instance = 0
    THEN [instance |-> m.constructed + 1, constructed |-> m.constructed + 1]
    ELSE m

\* model.encode: one row per text, the same row for the same text
Embed(text) == <<(Len(text.src) + text.piece) % 2>>

\* generate_embeddings, lines 42-46
GenerateEmbeddings(texts) == [d |-> 1, rows |-> [i \in 1..Len(texts) |-> Embed(texts[i])]]

(***************************************************************************)
(* Retrieval (retriever.py).  A distance is a whole number of hundred-      *)
(* thousandths (1e-5); a score is a whole number of ten-thousandths (1e-4). *)
(***************************************************************************)
\* round(distance, 4): the nearest ten-thousandth, a tie going to the even one
Round4(distance) ==
    LET lo == distance \div 10
        r == distance % 10
    IN  IF r < 5 THEN lo
        ELSE IF r > 5 THEN lo + 1
        ELSE IF lo % 2 = 0 THEN lo ELSE lo + 1

\* the truth value of pdf_filter: None and "" are false
Truthy(pdf_filter) == ~pdf_filter.none /\ pdf_filter.name # ""

FetchKAlwaysTopK(top_k, pdf_filter) == top_k

\* retrieve, line 44
FetchK(top_k, pdf_filter) == IF Truthy(pdf_filter) THEN top_k * 3 ELSE top_k

WithinThresholdFromBelow(distance, threshold) == distance >= threshold

WithinThresholdRounded(distance, threshold) == ~(Round4(distance) * 10 > threshold)

\* retrieve, lines 51-52: the candidate is kept unless distance > threshold
WithinThreshold(distance, threshold) == ~(distance > threshold)

MatchesFilterAlways(m, pdf_filter) == TRUE

\* retrieve, lines 55-56
MatchesFilter(m, pdf_filter) == ~(Truthy(pdf_filter) /\ m.pdf_name # pdf_filter.name)

\* retrieve, lines 58-61: the metadata and the score.  dist is not part of the
\* returned dict: it records the distance the score was rounded from
Passage(m, distance) ==
    [text |-> m.text, page |-> m.page, chunk_id |-> m.chunk_id, pdf_name |-> m.pdf_name,
     score |-> Round4(distance), dist |-> distance]

\* retrieve, lines 48-64: the loop over raw_results; filtered is the list so far
RECURSIVE FilterFrom(_, _, _, _, _)
FilterFrom(raw_results, filtered, top_k, threshold, pdf_filter) ==
    IF raw_results = <<>> THEN filtered
    ELSE LET r == Head(raw_results)
         IN  IF ~WithinThreshold(r.dist, threshold)
                 \/ ~MatchesFilter(r.meta, pdf_filter)
             THEN FilterFrom(Tail(raw_results), filtered, top_k, threshold, pdf_filter)
             ELSE LET more == Append(filtered, Passage(r.meta, r.dist))
                  IN  IF Len(more) >= top_k THEN more
                      ELSE FilterFrom(Tail(raw_results), more, top_k, threshold, pdf_filter)

\* generate_single_embedding(query): the row model.encode gives the query
QueryText(chars) == Text(chars, 0)

\* retrieve, lines 41-71, in the store s: the frame keeps the arguments, the
\* search it made (q, k, hits, results) and the list returned; an exception of
\* search leaves retrieve
Retrieve(s, query, top_k, threshold, pdf_filter) ==
    LET c == Outcome(s, CallSearch(Embed(query), FetchK(top_k, pdf_filter)))
        f == [c.f EXCEPT !.op = "retrieve", !.query = query, !.top_k = top_k,
                         !.threshold = threshold, !.pdf_filter = pdf_filter]
    IN  IF c.f.status = "ok"
        THEN [c EXCEPT !.f = [f EXCEPT !.filtered =
                                  FilterFrom(c.f.results, <<>>, top_k, threshold, pdf_filter)]]
        ELSE [c EXCEPT !.f = f]

(***************************************************************************)
(* Answer generation (generator.py).  A string is a sequence of            *)
(* characters; a run of characters without white space may be written as   *)
(* one element.                                                            *)
(***************************************************************************)
\* the sentinel of lines 72 and 109
NOT_FOUND == <<"Sorry, this is not available in the given NCERT PDF.">>

\* the messages of lines 117-139
Messages ==
    [key_not_set |-> <<"Error: GEMINI_API_KEY environment variable is not set. Please configure your Google AI Studio API key.">>,
     invalid_key |-> <<"Error: Invalid Gemini API key. Please check your GEMINI_API_KEY environment variable.">>,
     quota |-> <<"Error: Gemini API quota exceeded. Please check your API usage limits.">>,
     network |-> <<"Error: Network error connecting to Gemini API. Please check your internet connection.">>]

\* what the LLM collaborator does in a call of generate_answer: there is no
\* API key (_initialize_gemini raises ValueError before the LLM is called),
\* the LLM returns a text, or the call raises an exception with a message
Llm(kind, type, text) == [kind |-> kind, type |-> type, text |-> text]
NoLlm == Llm("none", "", <<>>)
LlmOutcomes ==
    {Llm("no_key", "ValueError", <<"GEMINI_API_KEY environment variable is not set.">>)}
      \cup {Llm("text", "", t) :
                 t \in {<<"Plants", " ", "make", " ", "food.", "\n">>, <<" ", "\n">>, <<>>}}
      \cup {Llm("raise", "Exception", m) :
                 m \in {<<"API_KEY_INVALID">>, <<"invalid API key">>, <<"Quota", " ", "exceeded">>,
                        <<"Connection", " ", "reset">>, <<>>, NOT_FOUND}}
      \cup {Llm("raise", "ValueError", <<"response", " ", "blocked">>)}

\* str.lower() of one element
Lower(w) ==
    CASE w = "API_KEY_INVALID" -> "api_key_invalid"
      [] w = "invalid API key" -> "invalid api key"
      [] w = "Quota" -> "quota"
      [] w = "Connection" -> "connection"
      [] OTHER -> w

\* needle in error_msg, and needle in error_msg.lower()
In(needle, error_msg) == \E i \in 1..Len(error_msg) : error_msg[i] = needle
InLower(needle, error_msg) == \E i \in 1..Len(error_msg) : Lower(error_msg[i]) = needle

DescribeAsNotFound(error_msg) == NOT_FOUND

\* generate_answer, lines 121-142: the message for an exception that is not
\* a ValueError
Describe(error_msg) ==
    IF In("API_KEY_INVALID", error_msg) \/ InLower("invalid API key", error_msg)
    THEN Messages.invalid_key
    ELSE IF InLower("quota", error_msg) THEN Messages.quota
    ELSE IF InLower("network", error_msg) \/ InLower("connection", error_msg)
    THEN Messages.network
    ELSE <<"Error: Failed to generate answer - ">> \o error_msg

GenerateAnswerAlwaysAsks(retrieved_chunks, llm) ==
    CASE llm.kind = "no_key" -> [answer |-> Messages.key_not_set, calls |-> <<>>]
      [] llm.kind = "text" ->
             [answer |-> IF Strip(llm.text) = <<>> THEN NOT_FOUND ELSE Strip(llm.text),
              calls |-> <<"llm">>]
      [] llm.kind = "raise" ->
             [answer |-> IF llm.type = "ValueError" THEN Messages.key_not_set
                         ELSE Describe(llm.text),
              calls |-> <<"llm">>]

\* generate_answer, lines 55-142: the answer, and whether the LLM was called
GenerateAnswer(retrieved_chunks, llm) ==
    IF retrieved_chunks = <<>> THEN [answer |-> NOT_FOUND, calls |-> <<>>]
    ELSE CASE llm.kind = "no_key" -> [answer |-> Messages.key_not_set, calls |-> <<>>]
           [] llm.kind = "text" ->
                  [answer |-> IF Strip(llm.text) = <<>> THEN NOT_FOUND ELSE Strip(llm.text),
                   calls |-> <<"llm">>]
           [] llm.kind = "raise" ->
                  [answer |-> IF llm.type = "ValueError" THEN Messages.key_not_set
                              ELSE Describe(llm.text),
                   calls |-> <<"llm">>]

(***************************************************************************)
(* Speech (tts_manager.py).  failing is the set of engines whose           *)
(* synthesize raises in this call; tried lists the engines called.         *)
(***************************************************************************)
TtsEngines == {"elevenlabs", "pyttsx3", "gtts"}

\* a request of ask_text (question, pdf_filter, tts_engine) or of
\* tts_generate (text, engine)
Request(text, pdf_filter, engine) == [text |-> text, pdf_filter |-> pdf_filter, engine |-> engine]
NoRequest == Request(<<>>, NoFilter, "")

CallSpeech(text, engine, failing) ==
    [Idle EXCEPT !.op = "generate_speech", !.text = text, !.engine = engine,
                 !.failing = failing]

\* _try_gtts, lines 129-140
TryGtts(f) ==
    IF "gtts" \in f.failing
    THEN [f EXCEPT !.tried = Append(@, "gtts"), !.status = "error", !.raised = "RuntimeError"]
    ELSE [f EXCEPT !.tried = Append(@, "gtts"), !.engine_used = "gtts"]

TryElevenlabsNoFallback(f) ==
    IF "elevenlabs" \in f.failing
    THEN [f EXCEPT !.tried = Append(@, "elevenlabs"), !.status = "error",
                   !.raised = "RuntimeError"]
    ELSE [f EXCEPT !.tried = Append(@, "elevenlabs"), !.engine_used = "elevenlabs"]

\* _try_elevenlabs, lines 143-154
TryElevenlabs(f) ==
    IF "elevenlabs" \in f.failing
    THEN TryGtts([f EXCEPT !.tried = Append(@, "elevenlabs")])
    ELSE [f EXCEPT !.tried = Append(@, "elevenlabs"), !.engine_used = "elevenlabs"]

\* generate_speech, lines 82-126, for the call f
GenerateSpeech(f) ==
    IF f.text = <<>> \/ Strip(f.text) = <<>>
    THEN [f EXCEPT !.status = "error", !.raised = "ValueError"]
    ELSE IF f.engine = "elevenlabs" THEN TryElevenlabs(f)
    ELSE IF f.engine = "gtts" THEN TryGtts(f)
    ELSE IF "pyttsx3" \in f.failing
    THEN TryGtts([f EXCEPT !.tried = Append(@, "pyttsx3")])
    ELSE [f EXCEPT !.tried = Append(@, "pyttsx3"), !.engine_used = "pyttsx3"]

(***************************************************************************)
(* Spec: one caller at a time uses the functions of the store; the process *)
(* may be restarted between calls and may die inside a write.              *)
(***************************************************************************)
Threads == {1, 2}

TheStore == Store(index, metadata, indexFile, metadataFile)

Max(a, b) == IF a >= b THEN a ELSE b

\* the longest of the four sequences the state holds
Load(s) ==
    Max(Max(ntotal(s.index), Len(s.metadata)),
        Max(Len(s.indexFile.vecs), Len(s.metadataFile.entries)))

NoResponse ==
    [handler |-> "none", code |-> 0, pages_extracted |-> 0, chunks_indexed |-> 0,
     total_vectors |-> 0,
     answer |-> <<>>, sources |-> <<>>, tts_engine_used |-> "",
     \* not sent: the text the handler was given, what the LLM did, what
     \* generate_answer was handed and returned, the collaborators called
     given |-> NoRequest, llm |-> NoLlm, retrieved_chunks |-> <<>>, generated |-> <<>>,
     calls |-> <<>>]

\* HTTPException(status_code=code)
HttpError(handler, code) == [NoResponse EXCEPT !.handler = handler, !.code = code]

Init ==
    /\ index = None
    /\ metadata = <<>>
    /\ indexFile = NoFile
    /\ metadataFile = NoFile
    /\ frame = [t \in Threads |-> Idle]
    /\ response = NoResponse
    /\ model = NoModel

\* thread 1 makes the call f and runs it to its end; a fault is planned only
\* for a statement the call reaches
Complete(f) ==
    \E c \in {Run([s |-> TheStore, f |-> f])} :
        /\ c.f.fault = f.fault
        /\ index' = c.s.index
        /\ metadata' = c.s.metadata
        /\ indexFile' = c.s.indexFile
        /\ metadataFile' = c.s.metadataFile
        /\ frame' = [frame EXCEPT ![1] = c.f]
        /\ UNCHANGED <<response, model>>

AddFaults == {f \in Faults : f.at \notin RemoveSteps}
ClearFaults == {f \in Faults : f.at \notin WriteSteps}

AddToIndex ==
    \E emb \in Arrays, meta \in Batches, fault \in AddFaults :
        /\ Load(TheStore) + Max(Len(emb.rows), Len(meta)) <= MaxVectors
        /\ Complete(CallAdd(emb, meta, fault))

Search ==
    \E d \in Dims : \E q \in Rows(d), k \in 1..MaxTopK :
        Complete(CallSearch(q, k))

GetIndexSize == Complete(Call("get_index_size"))

GetIndexedPdfs == Complete(Call("get_indexed_pdfs"))

ClearIndexCall == \E fault \in ClearFaults : Complete(CallClear(fault))

\* the process is stopped between two calls and started again (lines 27-28)
Restart ==
    /\ index' = None
    /\ metadata' = <<>>
    /\ frame' = [frame EXCEPT ![1] = [Idle EXCEPT !.op = "restart"]]
    /\ model' = NoModel
    /\ UNCHANGED <<indexFile, metadataFile, response>>

Next ==
    \/ AddToIndex
    \/ Search
    \/ GetIndexSize
    \/ GetIndexedPdfs
    \/ ClearIndexCall
    \/ Restart

Spec == Init /\ [][Next]_vars


(***************************************************************************)
(* SpecApp: the handlers of main.py, one request at a time.  A handler is  *)
(* a coroutine with no await between its calls into the store, so a        *)
(* request runs to its end before the next one starts.                     *)
(***************************************************************************)
\* the I/O faults met while a handler runs
AppFaults == {NoFault}

\* the handler ends with the store as the call state c left it
Answer(c, r) ==
    /\ index' = c.s.index
    /\ metadata' = c.s.metadata
    /\ indexFile' = c.s.indexFile
    /\ metadataFile' = c.s.metadataFile
    /\ frame' = [frame EXCEPT ![1] = c.f]
    /\ response' = r

\* a handler that does not use the embedder
Respond(c, r) == Answer(c, r) /\ UNCHANGED model

\* a handler that called generate_embeddings or generate_single_embedding
\* before the store
RespondEmbedded(c, r) == Answer(c, r) /\ model' = GetModel(model)

\* the handler ends before it calls the store or the embedder
Reject(r) ==
    /\ response' = r
    /\ UNCHANGED <<index, metadata, indexFile, metadataFile, frame, model>>

\* upload_pdf, lines 93-107: add_to_index, then get_index_size for the body
\* of the response; an exception becomes a 500, a dead process sends nothing
StoreChunks(chunks, pages_data, fault) ==
    \E c \in {Outcome(TheStore, CallAdd(GenerateEmbeddings([i \in 1..Len(chunks) |-> chunks[i].text]),
                                       chunks, fault))} :
        /\ c.f.fault = fault
        /\ CASE c.f.status = "ok" ->
                  \E g \in {Outcome(c.s, Call("get_index_size"))} :
                      RespondEmbedded(g, [handler |-> "upload_pdf", code |-> 200,
                                  pages_extracted |-> Len(pages_data),
                                  chunks_indexed |-> Len(chunks),
                                  total_vectors |-> g.f.size])
             [] c.f.status = "error" -> RespondEmbedded(c, HttpError("upload_pdf", 500))
             [] c.f.status = "crashed" -> RespondEmbedded(c, HttpError("upload_pdf", 0))

IndexPagesStoresFirst(pages_data) ==
    IF pages_data = <<>> THEN Reject(HttpError("upload_pdf", 400))
    ELSE \E split \in Splitters(pages_data), fault \in AppFaults :
             \E chunks \in {ChunkPagesSimple(pages_data, split)} :
                 /\ Load(TheStore) + Len(chunks) <= MaxVectors
                 /\ \/ StoreChunks(chunks, pages_data, fault)
                    \/ \E c \in {Outcome(TheStore,
                                       CallAdd(GenerateEmbeddings(
                                                   [i \in 1..Len(chunks) |-> chunks[i].text]),
                                               chunks, fault))} :
                           RespondEmbedded(c, HttpError("upload_pdf", 500))

\* upload_pdf, lines 81-107, for the pages extract_text_from_pdf returned
IndexPages(pages_data) ==
    IF pages_data = <<>> THEN Reject(HttpError("upload_pdf", 400))
    ELSE \/ Reject(HttpError("upload_pdf", 500))     \* generate_embeddings raises
         \/ \E split \in Splitters(pages_data), fault \in AppFaults :
                \E chunks \in {ChunkPagesSimple(pages_data, split)} :
                    /\ Load(TheStore) + Len(chunks) <= MaxVectors
                    /\ StoreChunks(chunks, pages_data, fault)

\* upload_pdf, lines 66-107
UploadPdf ==
    \/ \E doc \in {d \in Documents : d.filename \notin PdfNames} :
           Reject(HttpError("upload_pdf", 400))
    \/ \E doc \in {d \in Documents : d.filename \in PdfNames /\ ~d.parses} :
           Reject(HttpError("upload_pdf", 500))
    \/ \E pages_data \in {ExtractTextFromPdf(d) :
                              d \in {d \in Documents : d.filename \in PdfNames /\ d.parses}} :
           IndexPages(pages_data)

\* clear_db, lines 206-231
ClearDb ==
    \E fault \in AppFaults \cap ClearFaults :
        \E c \in {Outcome(TheStore, CallClear(fault))} :
            /\ c.f.fault = fault
            /\ CASE c.f.status = "ok" ->
                      \E g \in {Outcome(c.s, Call("get_index_size"))} :
                          Respond(g, [HttpError("clear_db", 200) EXCEPT
                                          !.total_vectors = g.f.size])
                 [] c.f.status = "error" -> Respond(c, HttpError("clear_db", 500))
                 [] c.f.status = "crashed" -> Respond(c, HttpError("clear_db", 0))

NextApp ==
    \/ UploadPdf
    \/ ClearDb
    \/ Restart

SpecApp == Init /\ [][NextApp]_vars

(***************************************************************************)
(* SpecConc: the threads of one process call add_to_index, search and      *)
(* clear_index with no lock around the module state (the module has none); *)
(* the statements of the calls interleave.  I/O does not fail here.        *)
(***************************************************************************)
\* the batch thread t adds: one chunk of its own, with its embedding
ThreadChunks(t) == <<Chunk(Text(<<"x">>, t), 1, 0, "a.pdf")>>
ThreadCall(t) ==
    CallAdd(GenerateEmbeddings([i \in 1..Len(ThreadChunks(t)) |-> ThreadChunks(t)[i].text]),
            ThreadChunks(t), NoFault)

Running == {t \in Threads : frame[t].at # "done"}

Begin(t, f) ==
    /\ frame[t].at = "done"
    /\ frame' = [frame EXCEPT ![t] = f]
    /\ UNCHANGED <<index, metadata, indexFile, metadataFile, response, model>>

BeginAdd ==
    \E t \in Threads :
        /\ Load(TheStore) + Cardinality({u \in Running : frame[u].op = "add_to_index"})
              < MaxVectors
        /\ Begin(t, ThreadCall(t))

BeginSearch == \E t \in Threads, q \in Rows(1) : Begin(t, CallSearch(q, MaxTopK))

BeginClear == \E t \in Threads : Begin(t, CallClear(NoFault))

\* thread t executes its next statement
StepThread ==
    \E t \in Running :
        \E c \in {Step([s |-> TheStore, f |-> frame[t]])} :
            /\ index' = c.s.index
            /\ metadata' = c.s.metadata
            /\ indexFile' = c.s.indexFile
            /\ metadataFile' = c.s.metadataFile
            /\ frame' = [frame EXCEPT ![t] = c.f]
            /\ UNCHANGED <<response, model>>

NextConc ==
    \/ BeginAdd
    \/ BeginSearch
    \/ BeginClear
    \/ StepThread

SpecConc == Init /\ [][NextConc]_vars

(***************************************************************************)
(* SpecAsk: one caller at a time adds passages to the store, searches it   *)
(* and calls retrieve.  Rows have one coordinate; I/O does not fail here.  *)
(***************************************************************************)
\* the coordinates of the rows stored: from the query row <<0>> they lie at
\* the distances 0.9 and 1.50544
Coords == {300, 388}

\* the question asked: its row is <<0>>
Queries == {QueryText(<<"x", "y">>)}

\* the thresholds handed to retrieve: 0.5, 1.2 (RELEVANCE_THRESHOLD), 1.5054
\* and 2.0
Thresholds == {50000, 120000, 150540, 200000}

\* the values of pdf_filter: None, "", two documents and a name of none
Filters == {NoFilter, Filter(""), Filter("a.pdf"), Filter("b.pdf"), Filter("c.pdf")}

AddPassages ==
    \E name \in PdfNames, m \in 1..MaxBatch :
        \E rows \in [1..m -> {<<x>> : x \in Coords}] :
            /\ Load(TheStore) + m <= MaxVectors
            /\ Complete(CallAdd([d |-> 1, rows |-> rows], ChunkBatch(name, m), NoFault))

SearchPassages ==
    \E query \in Queries, k \in 1..MaxTopK : Complete(CallSearch(Embed(query), k))

RetrievePassages ==
    \E query \in Queries, top_k \in 1..MaxTopK, threshold \in Thresholds,
       pdf_filter \in Filters :
        \E c \in {Retrieve(TheStore, query, top_k, threshold, pdf_filter)} :
            RespondEmbedded(c, response)

NextAsk ==
    \/ AddPassages
    \/ SearchPassages
    \/ RetrievePassages

SpecAsk == Init /\ [][NextAsk]_vars

(***************************************************************************)
(* SpecPipe: extract_text_from_pdf called on one document after another.   *)
(***************************************************************************)
\* what extract_text() returns for the pages of these files: "" as well
ScanTexts == RawTexts \cup {Str(<<>>)}

\* the files handed to the extractor
Scans ==
    {Document(n, TRUE, pp) : n \in PdfNames, pp \in SeqsUpTo(ScanTexts, MaxScan)}
      \cup {Document(n, FALSE, <<>>) : n \in PdfNames}

\* extract_text_from_pdf, lines 24-57: pdfplumber.open raises on a file it
\* cannot parse
ExtractCall(doc) ==
    IF doc.parses
    THEN [Idle EXCEPT !.op = "extract_text_from_pdf", !.doc = doc,
                      !.pages_data = ExtractTextFromPdf(doc)]
    ELSE [Idle EXCEPT !.op = "extract_text_from_pdf", !.doc = doc, !.status = "error"]

ExtractText ==
    \E doc \in Scans :
        /\ frame' = [frame EXCEPT ![1] = ExtractCall(doc)]
        /\ UNCHANGED <<index, metadata, indexFile, metadataFile, response, model>>

NextPipe == ExtractText

SpecPipe == Init /\ [][NextPipe]_vars

(***************************************************************************)
(* SpecCrowd: retrieve with a source filter over an index in which the     *)
(* passages of one document can be crowded out of the nearest 3 * top_k    *)
(* by the passages of another.                                             *)
(***************************************************************************)
\* the largest number of passages indexed
MaxCrowd == 4

\* the coordinate of a passage: its distance from the query is 0.1 or 0.9
CrowdCoords == {100, 300}

\* one passage is indexed; its chunk_id is its position in the index
AddOnePassage ==
    \E name \in PdfNames, x \in CrowdCoords :
        /\ Load(TheStore) < MaxCrowd
        /\ Complete(CallAdd([d |-> 1, rows |-> <<<<x>>>>],
                            <<Chunk(Text(<<"x">>, 1), 1, Load(TheStore), name)>>, NoFault))

\* retrieve(query, top_k=1, threshold=RELEVANCE_THRESHOLD, pdf_filter=name)
RetrieveOfDocument ==
    \E query \in Queries, name \in PdfNames :
        \E c \in {Retrieve(TheStore, query, 1, 120000, Filter(name))} :
            RespondEmbedded(c, response)

NextCrowd ==
    \/ AddOnePassage
    \/ RetrieveOfDocument

SpecCrowd == Init /\ [][NextCrowd]_vars

(***************************************************************************)
(* SpecEmbed: the threads of one process call generate_embeddings and      *)
(* generate_single_embedding; the statements of _get_model, which has no   *)
(* lock, interleave.  The store is not used.                               *)
(***************************************************************************)
EmbedFunctions == {"generate_embeddings", "generate_single_embedding"}

\* a call of one of the two functions, at the first statement of _get_model
CallEmbed(op) == [Idle EXCEPT !.op = op, !.at = "check_model"]

BeginEmbed ==
    \E t \in Threads, op \in EmbedFunctions : Begin(t, CallEmbed(op))

\* line 25: if _model is None
CheckModel(m, f) ==
    [m |-> m, f |-> [f EXCEPT !.at = IF m.instance = 0 THEN "construct_model"
                                      ELSE "return_model"]]

\* line 27, right-hand side: SentenceTransformer(MODEL_NAME) makes an instance
ConstructModel(m, f) ==
    [m |-> [m EXCEPT !.constructed = @ + 1],
     f |-> [f EXCEPT !.built = m.constructed + 1, !.at = "assign_model"]]

\* line 27: the assignment to _model
AssignModel(m, f) ==
    [m |-> [m EXCEPT !.instance = f.built], f |-> [f EXCEPT !.at = "return_model"]]

\* line 29: return _model; the caller encodes with the instance returned
ReturnModel(m, f) ==
    [m |-> m, f |-> [f EXCEPT !.used = m.instance, !.at = "done"]]

StepEmbed(m, f) ==
    CASE f.at = "check_model" -> CheckModel(m, f)
      [] f.at = "construct_model" -> ConstructModel(m, f)
      [] f.at = "assign_model" -> AssignModel(m, f)
      [] f.at = "return_model" -> ReturnModel(m, f)

\* thread t executes its next statement of _get_model
StepEmbedThread ==
    \E t \in Running :
        \E c \in {StepEmbed(model, frame[t])} :
            /\ model' = c.m
            /\ frame' = [frame EXCEPT ![t] = c.f]
            /\ UNCHANGED <<index, metadata, indexFile, metadataFile, response>>

\* the process is stopped when no call runs, and started again
RestartEmbedder ==
    /\ Running = {}
    /\ model # NoModel
    /\ model' = NoModel
    /\ frame' = [t \in Threads |-> [Idle EXCEPT !.op = "restart"]]
    /\ UNCHANGED <<index, metadata, indexFile, metadataFile, response>>

NextEmbed ==
    \/ BeginEmbed
    \/ StepEmbedThread
    \/ RestartEmbedder

SpecEmbed == Init /\ [][NextEmbed]_vars

(***************************************************************************)
(* SpecChunk: one call of chunk_pages or of merge_related_paragraphs, with *)
(* its arguments and with what its collaborators will do, is made and run  *)
(* to its end.  Neither function reads or writes the state of the process. *)
(***************************************************************************)
\* the largest number of paragraphs handed to merge_related_paragraphs
MaxParas == 3

\* the page texts: one of white space only, and two others
ChunkTexts == {<<" ", "\n">>, <<"x">>, <<"x", " ", "y">>}

\* pages_data: entries with their page numbers ascending
PageLists ==
    {pd \in SeqsUpTo([page : 1..MaxPages, text : ChunkTexts, pdf_name : PdfNames], MaxPages) :
        \A i \in 1..(Len(pd) - 1) : pd[i].page < pd[i + 1].page}

\* what detect_headings, the judge and merge_related_paragraphs do with one
\* page text: one paragraph; two that fit in one chunk; two that do not
PageOutcomes ==
    {[paras |-> <<Para(600, <<1>>)>>, judge |-> <<>>, raises |-> FALSE]}
      \cup {[paras |-> <<Para(598, <<1>>), Para(600, <<2>>)>>, judge |-> <<a>>, raises |-> FALSE] :
                 a \in {"YES", "NO", "raise"}}
      \cup {[paras |-> <<Para(600, <<1>>), Para(600, <<2>>)>>, judge |-> <<"YES">>,
              raises |-> r] : r \in BOOLEAN}

\* the page texts that are chunked
Chunked == {t \in ChunkTexts : Strip(t) # <<>>}

Oracles == [Chunked -> PageOutcomes]

\* the calls of chunk_pages
ChunkCalls ==
    {[Idle EXCEPT !.op = "chunk_pages", !.at = "call", !.pages_data = pd, !.split = split] :
         pd \in PageLists, split \in [Chunked -> 1..MaxPieces]}
      \cup {[Idle EXCEPT !.op = "chunk_pages", !.at = "call", !.pages_data = pd,
                         !.agentic = TRUE, !.oracle = oracle] :
                 pd \in PageLists, oracle \in Oracles}
      \cup {[Idle EXCEPT !.op = "chunk_pages", !.at = "call", !.pages_data = pd,
                         !.agentic = TRUE, !.importable = FALSE,
                         !.split = [t \in Chunked |-> MaxPieces]] : pd \in PageLists}

\* the lengths of the paragraphs: 598 + 2 + 600 is MAX_CHUNK_SIZE
ParaLens == {1, 598, 600, 1300}

\* the calls of merge_related_paragraphs(paragraphs): paragraph i is told
\* by <<i>>; no paragraph is empty (detect_headings returns none that is)
MergeCalls ==
    {[Idle EXCEPT !.op = "merge_related_paragraphs", !.at = "call",
                  !.paragraphs = [i \in 1..n |-> Para(lens[i], <<i>>)], !.judge = judge] :
         n \in 0..MaxParas, lens \in [1..MaxParas -> ParaLens],
         judge \in [1..(MaxParas - 1) -> Answers]}

InitChunk ==
    /\ index = None
    /\ metadata = <<>>
    /\ indexFile = NoFile
    /\ metadataFile = NoFile
    /\ response = NoResponse
    /\ model = NoModel
    /\ \E f \in ChunkCalls \cup MergeCalls : frame = [t \in Threads |-> IF t = 1 THEN f ELSE Idle]

ChunkPages ==
    /\ frame[1].op = "chunk_pages" /\ frame[1].at = "call"
    /\ frame' = [frame EXCEPT ![1] = [@ EXCEPT !.chunks = ChunkPagesOf(frame[1]), !.at = "done"]]
    /\ UNCHANGED <<index, metadata, indexFile, metadataFile, response, model>>

MergeParagraphs ==
    /\ frame[1].op = "merge_related_paragraphs" /\ frame[1].at = "call"
    /\ frame' = [frame EXCEPT ![1] =
                    [@ EXCEPT !.merged = MergeRelatedParagraphs(frame[1].paragraphs,
                                                                frame[1].judge, MAX_CHUNK_SIZE),
                              !.at = "done"]]
    /\ UNCHANGED <<index, metadata, indexFile, metadataFile, response, model>>

NextChunk ==
    \/ ChunkPages
    \/ MergeParagraphs

SpecChunk == InitChunk /\ [][NextChunk]_vars

(***************************************************************************)
(* SpecTutor: the server holds a corpus, loaded or still on disk only, and *)
(* answers one request of ask_text or tts_generate; or generate_speech is  *)
(* called by itself.  The I/O of the store does not fail here.             *)
(***************************************************************************)
\* the defaults of retrieve, lines 18-19; the threshold 1.2 in units of 1e-5
DEFAULT_TOP_K == 5
RELEVANCE_THRESHOLD == 120000

\* the text of a request: empty, white space only, or a question
Questions == {<<>>, <<" ", "\n">>, <<"x", "y">>}

\* the values of tts_engine / engine
EngineNames == {"elevenlabs", "gtts", "coqui", "GTTS"}

\* the values of pdf_filter
AskFilters == {NoFilter, Filter(""), Filter("a.pdf"), Filter("c.pdf")}

\* a corpus: the coordinate and the document of each passage indexed
Corpora == SeqsUpTo(Coords \X PdfNames, MaxVectors)
CorpusIndex(corpus) ==
    [IndexFlatL2(1) EXCEPT !.vecs = [i \in 1..Len(corpus) |-> <<corpus[i][1]>>]]
CorpusMetadata(corpus) ==
    [i \in 1..Len(corpus) |-> Chunk(Text(<<"x">>, i), 1, i - 1, corpus[i][2])]

InitTutor ==
    \E corpus \in Corpora, loaded \in BOOLEAN :
        /\ corpus = <<>> => ~loaded
        /\ index = IF loaded THEN CorpusIndex(corpus) ELSE None
        /\ metadata = IF loaded THEN CorpusMetadata(corpus) ELSE <<>>
        /\ indexFile = IF corpus = <<>> THEN NoFile ELSE IndexFileOf(CorpusIndex(corpus))
        /\ metadataFile = IF corpus = <<>> THEN NoFile
                          ELSE MetadataFileOf(CorpusMetadata(corpus))
        /\ frame = [t \in Threads |-> Idle]
        /\ response = NoResponse
        /\ model = NoModel

\* no request was served and no call made yet
Fresh == response.handler = "none" /\ frame[1].op = "none"

BlankEmptyOnly(text) == text = <<>>

\* not request.question.strip(), line 115; not request.text.strip(), line 173
Blank(text) == Strip(text) = <<>>

\* ask_text, lines 140-148
Sources(chunks) ==
    [i \in 1..Len(chunks) |->
        [pdf |-> chunks[i].pdf_name, page |-> chunks[i].page, chunk |-> chunks[i].chunk_id,
         score |-> chunks[i].score]]

\* ask_text, lines 112-164
AskText ==
    /\ Fresh
    /\ \E question \in Questions, pdf_filter \in AskFilters, tts_engine \in EngineNames :
         IF Blank(question)
         THEN Reject([HttpError("ask_text", 400) EXCEPT
                          !.given = Request(question, pdf_filter, tts_engine)])
         ELSE \E c \in {Retrieve(TheStore, QueryText(question), DEFAULT_TOP_K,
                                  RELEVANCE_THRESHOLD, pdf_filter)} :
                \E llm \in LlmOutcomes, failing \in SUBSET TtsEngines :
                  \E g \in {GenerateAnswer(c.f.filtered, llm)} :
                    \E t \in {GenerateSpeech(CallSpeech(g.answer, tts_engine, failing))} :
                      \E r \in {[HttpError("ask_text", 500) EXCEPT
                                     !.given = Request(question, pdf_filter, tts_engine),
                                     !.llm = llm, !.retrieved_chunks = c.f.filtered,
                                     !.generated = g.answer,
                                     !.calls = <<"retrieve", "generate_answer">>
                                                  \o g.calls \o t.tried]} :
                        /\ c.f.status = "ok"
                        /\ RespondEmbedded([c EXCEPT !.f = t],
                              IF t.status = "ok"
                              THEN [r EXCEPT !.code = 200, !.answer = g.answer,
                                             !.sources = Sources(c.f.filtered),
                                             !.tts_engine_used = t.engine_used]
                              ELSE r)

\* tts_generate, lines 170-201; exists tells whether the audio file is there
TtsGenerate ==
    /\ Fresh
    /\ \E text \in Questions, engine \in EngineNames, failing \in SUBSET TtsEngines,
          exists \in BOOLEAN :
         IF Blank(text)
         THEN Reject([HttpError("tts_generate", 400) EXCEPT
                          !.given = Request(text, NoFilter, engine)])
         ELSE \E t \in {GenerateSpeech(CallSpeech(text, engine, failing))} :
                /\ frame' = [frame EXCEPT ![1] = t]
                /\ response' = [HttpError("tts_generate",
                                          IF t.status = "ok" /\ exists THEN 200 ELSE 500)
                                  EXCEPT !.given = Request(text, NoFilter, engine),
                                         !.tts_engine_used =
                                             IF exists THEN t.engine_used ELSE "",
                                         !.calls = t.tried]
                /\ UNCHANGED <<index, metadata, indexFile, metadataFile, model>>

\* generate_speech(text, engine) called by itself
SpeechCall ==
    /\ Fresh
    /\ \E text \in Questions, engine \in EngineNames, failing \in SUBSET TtsEngines :
         /\ frame' = [frame EXCEPT ![1] = GenerateSpeech(CallSpeech(text, engine, failing))]
         /\ UNCHANGED <<index, metadata, indexFile, metadataFile, response, model>>

NextTutor ==
    \/ AskText
    \/ TtsGenerate
    \/ SpeechCall

SpecTutor == InitTutor /\ [][NextTutor]_vars





(***************************************************************************)
(* What a caller of the store observes in a state.                         *)
(***************************************************************************)
\* the store once _ensure_loaded() has run
Loaded(s) == Outcome(s, Call("_ensure_loaded"))

\* get_index_size()
SizeOf(s) == Outcome(s, Call("get_index_size")).f.size

\* the two files describe the same entries: neither exists, or both parse
\* and hold as many rows as metadata entries
FilesAgree(xf, mf) ==
    \/ ~xf.exists /\ ~mf.exists
    \/ /\ xf.exists /\ xf.ok
       /\ mf.exists /\ mf.ok
       /\ Len(xf.vecs) = Len(mf.entries)

ExactlyOneFile(xf, mf) == xf.exists # mf.exists

\* the call thread 1 has just completed
done == frame[1]

(***************************************************************************)
(* C1 (stated as claimed).  After any sequence of add_to_index calls, with *)
(* any arguments the function accepts, get_index_size() equals the length  *)
(* of the metadata log, and search returns no metadata entry read at a     *)
(* position at or beyond the vector count.                                 *)
(***************************************************************************)
C1_ParallelArrays ==
    /\ (done.op = "add_to_index" /\ done.status = "ok")
          => SizeOf(TheStore) = Len(metadata)
    /\ (done.op = "search" /\ done.status = "ok")
          => \A i \in 1..Len(done.results) : done.results[i].pos < ntotal(index)

(***************************************************************************)
(* C3 (stated as claimed).  An add_to_index call whose number of embedding *)
(* rows differs from its number of metadata entries fails, and changes     *)
(* neither the vector structure nor the metadata log.                      *)
(***************************************************************************)
C3_MismatchedAddRejected ==
    [][(/\ done'.op = "add_to_index"
        /\ done'.fault = NoFault
        /\ Len(done'.emb.rows) # Len(done'.meta))
          => /\ done'.status = "error"
             /\ index' = Loaded(TheStore).s.index
             /\ metadata' = Loaded(TheStore).s.metadata]_vars

(***************************************************************************)
(* C4.  Dimension fixation: when the index (in memory, or as loaded from   *)
(* its files) has width D, an add_to_index call with an array of another   *)
(* width fails with an error and leaves get_index_size(), the metadata log *)
(* and both files unchanged.                                               *)
(***************************************************************************)
C4_DimensionFixation ==
    [][(/\ done'.op = "add_to_index"
        /\ Loaded(TheStore).f.status = "ok"
        /\ Loaded(TheStore).s.index.exists
        /\ Loaded(TheStore).s.index.d # done'.emb.d)
          => /\ done'.status = "error"
             /\ SizeOf(TheStore') = SizeOf(TheStore)
             /\ index' = Loaded(TheStore).s.index
             /\ metadata' = Loaded(TheStore).s.metadata
             /\ indexFile' = indexFile
             /\ metadataFile' = metadataFile]_vars

\* an add of rows of width 2 was refused by an index holding rows of width 1
C4_Witness ==
    /\ done.op = "add_to_index" /\ done.status = "error"
    /\ index.exists /\ ntotal(index) > 0
    /\ Len(done.emb.rows) > 0
    /\ done.emb.d # index.d

(***************************************************************************)
(* C5 (stated as claimed).  When a step of add_to_index fails, the vector  *)
(* structure, the metadata log and both files are as they were before the  *)
(* call.  The calls considered offer a batch of one row or more with as    *)
(* many metadata entries as rows.                                          *)
(***************************************************************************)
C5_AddAllOrNothing ==
    [][(/\ done'.op = "add_to_index" /\ done'.status = "error"
        /\ Len(done'.emb.rows) > 0
        /\ Len(done'.emb.rows) = Len(done'.meta))
          => /\ index' = Loaded(TheStore).s.index
             /\ metadata' = Loaded(TheStore).s.metadata
             /\ indexFile' = indexFile
             /\ metadataFile' = metadataFile]_vars

(***************************************************************************)
(* C8 (stated as claimed).  When the process dies inside add_to_index or   *)
(* _save, the two files found afterwards describe the same number of       *)
(* entries.  The calls considered offer one row or more, as many metadata  *)
(* entries as rows, and start from files that agree.                       *)
(***************************************************************************)
C8_SaveIsAtomic ==
    [][(/\ done'.op = "add_to_index" /\ done'.status = "crashed"
        /\ Len(done'.emb.rows) > 0
        /\ Len(done'.emb.rows) = Len(done'.meta)
        /\ FilesAgree(indexFile, metadataFile))
          => FilesAgree(indexFile', metadataFile')]_vars

(***************************************************************************)
(* C9 (stated as claimed).  When both files exist and disagree (different  *)
(* counts, or one cannot be deserialized), the first access of a process   *)
(* fails with an error.                                                    *)
(***************************************************************************)
C9_InconsistentFilesSurfaced ==
    [][(/\ ~index.exists
        /\ indexFile.exists /\ metadataFile.exists
        /\ ~FilesAgree(indexFile, metadataFile)
        /\ done'.op \in {"add_to_index", "search", "get_index_size", "get_indexed_pdfs"})
          => done'.status = "error"]_vars

(***************************************************************************)
(* C10.  Both-or-neither load: when a process that has loaded nothing      *)
(* finds exactly one of the two files, the index is empty (size 0, no      *)
(* sources, every search returns nothing), an access loads nothing from    *)
(* the surviving file, and an add_to_index that returns starts a fresh     *)
(* index whose rows and metadata log are those of its batch alone.         *)
(***************************************************************************)
C10_BothOrNeither ==
    [][(~index.exists /\ ExactlyOneFile(indexFile, metadataFile))
          => /\ SizeOf(TheStore) = 0
             /\ Outcome(TheStore, Call("get_indexed_pdfs")).f.pdfs = {}
             /\ \A d \in Dims : \A q \in Rows(d), k \in 1..MaxTopK :
                   /\ Outcome(TheStore, CallSearch(q, k)).f.status = "ok"
                   /\ Outcome(TheStore, CallSearch(q, k)).f.results = <<>>
             /\ (done'.op \in {"search", "get_index_size", "get_indexed_pdfs"})
                   => (~index'.exists /\ metadata' = <<>>)
             /\ (done'.op = "add_to_index" /\ done'.status = "ok")
                   => /\ index'.vecs = done'.emb.rows
                      /\ metadata' = done'.meta]_vars

\* a process with nothing loaded has asked for the size while only one of
\* the two files existed
C10_Witness ==
    /\ done.op = "get_index_size" /\ done.status = "ok"
    /\ ~index.exists
    /\ ExactlyOneFile(indexFile, metadataFile)
    /\ Len(indexFile.vecs) + Len(metadataFile.entries) > 0


(***************************************************************************)
(* C2 (stated as claimed).  chunk_id is unique and increasing across the   *)
(* corpus: with no clear in between, the entry at position N of the        *)
(* metadata log has chunk_id N, so no two entries share a chunk_id.        *)
(***************************************************************************)
C2_ChunkIdIsPosition ==
    \A i \in 1..Len(metadata) : metadata[i].chunk_id = i - 1


\* the hits of a search that carry a label
Labelled(hits) == SelectSeq(hits, LAMBDA h : h.idx # -1)

(***************************************************************************)
(* C6 (stated as claimed).  A search that runs while add_to_index runs     *)
(* sees vectors and metadata that match: every neighbour faiss reported is *)
(* returned, none is dropped for lack of a metadata entry, and each is     *)
(* returned with the metadata of its own vector.                           *)
(***************************************************************************)
C6_SearchSeesConsistentPair ==
    \A t \in Threads :
        (frame[t].op = "search" /\ frame[t].at = "done" /\ frame[t].status = "ok")
            => /\ Len(frame[t].results) = Len(Labelled(frame[t].hits))
               /\ \A i \in 1..Len(frame[t].results) :
                     SqDist(Embed(frame[t].results[i].meta.text), frame[t].q)
                         = frame[t].results[i].dist

\* the memory pair is aligned and the files hold the rows and the entries
\* of the memory pair (None and a missing file hold nothing)
PairConsistent ==
    /\ ntotal(index) = Len(metadata)
    /\ \A i \in 1..Len(metadata) : index.vecs[i] = Embed(metadata[i].text)
    /\ indexFile.vecs = index.vecs
    /\ metadataFile.entries = metadata

(***************************************************************************)
(* C7 (stated as claimed).  Concurrent add_to_index and clear_index calls  *)
(* behave as a critical section: once all of them have returned, the       *)
(* vector count equals the metadata count, the Nth vector is the embedding *)
(* of the Nth metadata entry, and the files hold the in-memory pair.       *)
(***************************************************************************)
C7_MutationsSerialized ==
    (\A t \in Threads :
        /\ frame[t].at = "done" /\ frame[t].status = "ok"
        /\ frame[t].op \in {"none", "add_to_index", "clear_index"})
      => PairConsistent

\* get_index_size() returns in the store s
SizeKnown(s) == Outcome(s, Call("get_index_size")).f.status = "ok"

\* get_indexed_pdfs() in the store s
PdfsOf(s) == Outcome(s, Call("get_indexed_pdfs")).f.pdfs

\* the store a new process finds
Restarted(s) == [s EXCEPT !.index = None, !.metadata = <<>>]

\* every access of the store s returns, and sees no vector and no source
SeesEmpty(s) ==
    /\ SizeKnown(s) /\ SizeOf(s) = 0
    /\ Outcome(s, Call("get_indexed_pdfs")).f.status = "ok" /\ PdfsOf(s) = {}
    /\ \A d \in Dims : \A q \in Rows(d), k \in 1..MaxTopK :
          /\ Outcome(s, CallSearch(q, k)).f.status = "ok"
          /\ Outcome(s, CallSearch(q, k)).f.results = <<>>

(***************************************************************************)
(* C11.  Idempotent clear: after a clear_index() call that returns, from   *)
(* any reachable state, get_index_size() is 0 and get_indexed_pdfs() is    *)
(* empty; a second clear_index() made at once returns too and changes      *)
(* nothing, in memory or on disk.                                          *)
(***************************************************************************)
C11_IdempotentClear ==
    [][(done'.op = "clear_index" /\ done'.status = "ok")
          => /\ SizeKnown(TheStore') /\ SizeOf(TheStore') = 0
             /\ PdfsOf(TheStore') = {}
             /\ \A fault \in ClearFaults :
                   /\ Outcome(TheStore', CallClear(fault)).f.status = "ok"
                   /\ Outcome(TheStore', CallClear(fault)).s = TheStore']_vars

\* a clear_index() call has returned
C11_Witness ==
    /\ done.op = "clear_index" /\ done.status = "ok"
    /\ SizeOf(TheStore) = 0
    /\ Outcome(TheStore, CallClear(NoFault)).f.status = "ok"

\* nothing in memory and neither file on disk
Cleared(s) ==
    /\ ~s.index.exists /\ s.metadata = <<>>
    /\ ~s.indexFile.exists /\ ~s.metadataFile.exists

C13_GrowsBetweenClears ==
    [][/\ (/\ SizeKnown(TheStore) /\ SizeKnown(TheStore')
           /\ done'.op # "clear_index"
           /\ ~(response' # response /\ response'.handler = "clear_db"))
             => SizeOf(TheStore') >= SizeOf(TheStore)
       /\ (done'.op = "add_to_index" /\ done'.status = "ok" /\ SizeKnown(TheStore))
             => SizeOf(TheStore') = SizeOf(TheStore) + Len(done'.emb.rows)
       /\ (response' # response /\ response'.handler = "upload_pdf" /\ response'.code = 200)
             => response'.total_vectors = SizeOf(TheStore) + response'.chunks_indexed]_vars

(***************************************************************************)
(* C14.  search on an empty index (never created, created with zero        *)
(* vectors, or just cleared) returns an empty sequence, for any query and  *)
(* any top_k, and does not raise.                                          *)
(***************************************************************************)
C14_SearchEmptyIndex ==
    [][(/\ done'.op = "search"
        /\ Loaded(TheStore).f.status = "ok"
        /\ ntotal(Loaded(TheStore).s.index) = 0)
          => (done'.status = "ok" /\ done'.results = <<>>)]_vars

\* a query of width 2 was answered by an index of width 1 created with
\* zero vectors
C14_Witness ==
    /\ done.op = "search" /\ done.status = "ok" /\ done.results = <<>>
    /\ index.exists /\ ntotal(index) = 0
    /\ Len(done.q) # index.d

\* the smaller of two numbers
Least(a, b) == IF a <= b THEN a ELSE b

\* the positions a search returned
Positions(results) == {results[i].pos : i \in 1..Len(results)}

(***************************************************************************)
(* C15.  search(query, top_k) on an index with as many vectors as metadata *)
(* entries returns exactly min(top_k, size) pairs: no stored vector left   *)
(* out is nearer to the query than one returned, each pair holds the       *)
(* metadata entry of its own vector and that vector's distance, and the    *)
(* pairs are in ascending order of distance.  (retrieve's frame holds the  *)
(* search it made.)                                                        *)
(***************************************************************************)
C15_SearchTopK ==
    (/\ done.op \in {"search", "retrieve"} /\ done.status = "ok"
     /\ ntotal(index) = Len(metadata))
      => /\ Len(done.results) = Least(done.k, ntotal(index))
         /\ Cardinality(Positions(done.results)) = Len(done.results)
         /\ \A i \in 1..Len(done.results) :
               /\ done.results[i].pos \in 0..(ntotal(index) - 1)
               /\ done.results[i].meta = metadata[done.results[i].pos + 1]
               /\ done.results[i].dist = SqDist(index.vecs[done.results[i].pos + 1], done.q)
         /\ \A i \in 1..(Len(done.results) - 1) :
               done.results[i].dist <= done.results[i + 1].dist
         /\ \A p \in (0..(ntotal(index) - 1)) \ Positions(done.results) :
               \A i \in 1..Len(done.results) :
                   done.results[i].dist <= SqDist(index.vecs[p + 1], done.q)

\* a search for one neighbour among two stored vectors returned the second
\* one stored, the nearer
C15_Witness ==
    /\ done.op = "search" /\ done.status = "ok"
    /\ ntotal(index) = 2 /\ Len(metadata) = 2
    /\ done.k = 1
    /\ Len(done.results) = 1
    /\ done.results[1].pos = 1
    /\ done.results[1].dist < SqDist(index.vecs[1], done.q)

\* the candidates of a retrieve call that pass its threshold and, when a
\* filter is given, are of the document it names
Kept(f) ==
    SelectSeq(f.results,
              LAMBDA r : /\ r.dist <= f.threshold
                         /\ (~f.pdf_filter.none => r.meta.pdf_name = f.pdf_filter.name))

(***************************************************************************)
(* C16.  retrieve asks search for top_k * 3 candidates when a source       *)
(* filter is given and for top_k otherwise, and returns, in the order of   *)
(* the candidates (ascending distance), exactly the first top_k of those   *)
(* whose distance is at most the threshold and that are of the filter's    *)
(* document; every passage returned is within the threshold; when no       *)
(* candidate passes, the result is the empty sequence and nothing is       *)
(* raised.  The filter is None or a non-empty name.                        *)
(***************************************************************************)
C16_RetrieveFirstTopK ==
    (done.op = "retrieve" /\ done.pdf_filter # Filter(""))
      => /\ done.status = "ok"
         /\ done.k = IF done.pdf_filter.none THEN done.top_k ELSE done.top_k * 3
         /\ Len(done.filtered) = Least(done.top_k, Len(Kept(done)))
         /\ \A i \in 1..Len(done.filtered) :
               /\ done.filtered[i].dist = Kept(done)[i].dist
               /\ done.filtered[i].text = Kept(done)[i].meta.text
               /\ done.filtered[i].page = Kept(done)[i].meta.page
               /\ done.filtered[i].chunk_id = Kept(done)[i].meta.chunk_id
               /\ done.filtered[i].pdf_name = Kept(done)[i].meta.pdf_name
               /\ done.filtered[i].dist <= done.threshold
         /\ \A i \in 1..(Len(done.filtered) - 1) :
               done.filtered[i].dist <= done.filtered[i + 1].dist

\* threshold 1.2, one passage at 0.9 and one at 1.50544: only the first is
\* returned
C16_Witness ==
    /\ done.op = "retrieve" /\ done.status = "ok"
    /\ done.threshold = 120000 /\ done.pdf_filter = NoFilter
    /\ Len(done.results) = 2
    /\ done.results[1].dist = 90000 /\ done.results[2].dist = 150544
    /\ Len(done.filtered) = 1
    /\ done.filtered[1].dist = 90000

\* the number of passages the retrieve call of frame f returns when it is
\* made with the threshold t instead
CountAt(f, t) == Len(Retrieve(TheStore, f.query, f.top_k, t, f.pdf_filter).f.filtered)

(***************************************************************************)
(* C17.  Threshold monotonicity: for a fixed query, corpus, top_k and      *)
(* source filter, retrieve with a threshold t1 returns no more passages    *)
(* than retrieve with a threshold t2 >= t1.                                *)
(***************************************************************************)
C17_ThresholdMonotone ==
    (done.op = "retrieve" /\ done.status = "ok")
      => /\ CountAt(done, done.threshold) = Len(done.filtered)
         /\ \A t \in Thresholds :
               /\ t <= done.threshold => CountAt(done, t) <= Len(done.filtered)
               /\ t >= done.threshold => CountAt(done, t) >= Len(done.filtered)

\* a retrieve call returned one passage and returns two with a higher
\* threshold
C17_Witness ==
    /\ done.op = "retrieve" /\ done.status = "ok"
    /\ Len(done.filtered) = 1
    /\ \E t \in Thresholds : t > done.threshold /\ CountAt(done, t) = 2

(***************************************************************************)
(* C18 (stated as claimed).  Source filter exactness: for every value X    *)
(* passed as pdf_filter to retrieve, the empty string and the name of no   *)
(* indexed document included, every passage returned has pdf_name = X.     *)
(***************************************************************************)
C18_FilterExact ==
    (done.op = "retrieve" /\ done.status = "ok" /\ ~done.pdf_filter.none)
      => \A i \in 1..Len(done.filtered) :
             done.filtered[i].pdf_name = done.pdf_filter.name

\* extract_text() gave the page some character that is not white space
NonBlank(raw) == ~raw.none /\ \E i \in 1..Len(raw.chars) : ~IsSpace(raw.chars[i])

\* the physical pages (1-based) of the document that are not blank
NonBlankPages(doc) == {i \in 1..Len(doc.pages) : NonBlank(doc.pages[i])}

(***************************************************************************)
(* C19.  The extractor emits one Page per physical page with some text     *)
(* that is not white space and skips the others: for a document whose set  *)
(* of non-blank pages is S, the output has exactly |S| entries, in page    *)
(* order, each with a 1-based page number of S and the document's name.    *)
(***************************************************************************)
C19_OnePagePerNonBlank ==
    (done.op = "extract_text_from_pdf" /\ done.status = "ok")
      => /\ Len(done.pages_data) = Cardinality(NonBlankPages(done.doc))
         /\ \A j \in 1..Len(done.pages_data) :
               /\ done.pages_data[j].page \in NonBlankPages(done.doc)
               /\ done.pages_data[j].pdf_name = done.doc.filename
               /\ done.pages_data[j].text # <<>>
         /\ \A j \in 1..(Len(done.pages_data) - 1) :
               done.pages_data[j].page < done.pages_data[j + 1].page

\* a document of 3 pages, the second blank, gave 2 Pages, numbered 1 and 3
C19_Witness ==
    /\ done.op = "extract_text_from_pdf" /\ done.status = "ok"
    /\ Len(done.doc.pages) = 3
    /\ NonBlankPages(done.doc) = {1, 3}
    /\ ~done.doc.pages[2].none
    /\ Len(done.pages_data) = 2
    /\ done.pages_data[1].page = 1 /\ done.pages_data[2].page = 3

(***************************************************************************)
(* C20.  A failed upload never mutates the index: when the file is not a   *)
(* PDF, cannot be parsed, yields no page with text, or a step before the   *)
(* add raises, upload_pdf answers with an error (400 or 500) and the       *)
(* vectors, the metadata log and both files are as before the request.     *)
(***************************************************************************)
C20_FailedUploadLeavesIndex ==
    [][(/\ response' # response
        /\ response'.handler = "upload_pdf"
        /\ response'.code # 200)
          => /\ response'.code \in {400, 500}
             /\ index' = index
             /\ metadata' = metadata
             /\ indexFile' = indexFile
             /\ metadataFile' = metadataFile]_vars

\* an upload was refused with 400 while the index held vectors
C20_Witness ==
    /\ response.handler = "upload_pdf" /\ response.code = 400
    /\ index.exists /\ ntotal(index) > 0
    /\ indexFile.exists /\ metadataFile.exists

(***************************************************************************)
(* C25.  Persist/reload round trip: after an add_to_index call that        *)
(* returns, whatever calls came before it, a new process that accesses     *)
(* the index loads the same rows and the same metadata log in the same     *)
(* order, so it reports the same size and sources and answers every search *)
(* as the process that made the add does.                                  *)
(***************************************************************************)
C25_ReloadRoundTrip ==
    [][(done'.op = "add_to_index" /\ done'.status = "ok")
          => /\ Loaded(Restarted(TheStore')).f.status = "ok"
             /\ Loaded(Restarted(TheStore')).s.index = index'
             /\ Loaded(Restarted(TheStore')).s.metadata = metadata'
             /\ SizeOf(Restarted(TheStore')) = SizeOf(TheStore')
             /\ PdfsOf(Restarted(TheStore')) = PdfsOf(TheStore')
             /\ \A d \in Dims : \A q \in Rows(d), k \in 1..MaxTopK :
                   /\ Outcome(Restarted(TheStore'), CallSearch(q, k)).f.status
                         = Outcome(TheStore', CallSearch(q, k)).f.status
                   /\ Outcome(Restarted(TheStore'), CallSearch(q, k)).f.results
                         = Outcome(TheStore', CallSearch(q, k)).f.results]_vars

\* a second add_to_index has returned: the index holds the rows of an
\* earlier call and its own, with their metadata
C25_Witness ==
    /\ done.op = "add_to_index" /\ done.status = "ok"
    /\ Len(done.emb.rows) = 1 /\ Len(done.meta) = 1
    /\ ntotal(index) = 2 /\ Len(metadata) = 2
    /\ Loaded(Restarted(TheStore)).s.metadata = metadata

\* the candidates of a retrieve call that the loop of retrieve keeps, were
\* it not to stop at top_k
KeptByCode(f) ==
    SelectSeq(f.results,
              LAMBDA r : r.dist <= f.threshold /\ MatchesFilter(r.meta, f.pdf_filter))

(***************************************************************************)
(* C27.  retrieve compares the unrounded distance with the threshold and   *)
(* rounds only the reported score to 4 decimal places: the passages        *)
(* returned are the first top_k candidates with distance <= threshold (of  *)
(* the filter's document), so a candidate whose distance is above the      *)
(* threshold is not returned even when its rounded score equals the        *)
(* threshold; each score is its distance rounded, and the scores are in    *)
(* non-decreasing order.                                                   *)
(***************************************************************************)
C27_FullPrecisionThreshold ==
    (done.op = "retrieve" /\ done.status = "ok")
      => /\ Len(done.filtered) = Least(done.top_k, Len(KeptByCode(done)))
         /\ \A i \in 1..Len(done.filtered) :
               /\ done.filtered[i].dist = KeptByCode(done)[i].dist
               /\ done.filtered[i].dist <= done.threshold
               /\ done.filtered[i].score = Round4(done.filtered[i].dist)
         /\ \A i \in 1..(Len(done.filtered) - 1) :
               done.filtered[i].score <= done.filtered[i + 1].score

\* threshold 1.5054: the candidate at 1.50544, whose score is 1.5054, is
\* not returned, and the one at 0.9 is
C27_Witness ==
    /\ done.op = "retrieve" /\ done.status = "ok"
    /\ done.threshold = 150540
    /\ Len(done.results) = 2
    /\ done.results[2].dist = 150544
    /\ Round4(done.results[2].dist) * 10 = done.threshold
    /\ Len(done.filtered) = 1
    /\ done.filtered[1].dist = 90000 /\ done.filtered[1].score = 9000
    /\ done.top_k = 2

\* the positions (from 1) of the indexed passages of the document the call f
\* filters on that lie within its threshold of its query
PassagesOfDocument(f) ==
    {i \in 1..Len(metadata) :
        /\ metadata[i].pdf_name = f.pdf_filter.name
        /\ SqDist(index.vecs[i], f.q) <= f.threshold}

\* the positions of the passages the call f returned
Returned(f) == {f.filtered[i].chunk_id + 1 : i \in 1..Len(f.filtered)}

(***************************************************************************)
(* C29.  With the source filter X set, retrieve returns the nearest        *)
(* passages of X: when the index holds m passages of X within the          *)
(* threshold, it returns min(top_k, m) of them, none farther than one of   *)
(* X it left out, however many passages of other documents are nearer.     *)
(***************************************************************************)
C29_NearestOfDocument ==
    (done.op = "retrieve" /\ done.status = "ok" /\ ~done.pdf_filter.none
        /\ done.pdf_filter.name # "" /\ index # None /\ ntotal(index) = Len(metadata))
      => /\ Len(done.filtered) = Least(done.top_k, Cardinality(PassagesOfDocument(done)))
         /\ Cardinality(Returned(done)) = Len(done.filtered)
         /\ Returned(done) \subseteq PassagesOfDocument(done)
         /\ \A i \in Returned(done) : \A j \in PassagesOfDocument(done) \ Returned(done) :
               SqDist(index.vecs[i], done.q) <= SqDist(index.vecs[j], done.q)

(***************************************************************************)
(* C24.  The embedding model is a process-wide singleton: however the      *)
(* calls of generate_embeddings and generate_single_embedding interleave,  *)
(* the model is constructed at most once in a process and every call that  *)
(* has returned used the same instance.                                    *)
(***************************************************************************)
C24_ModelSingleton ==
    /\ model.constructed <= 1
    /\ \A t, u \in Threads :
          (frame[t].used # 0 /\ frame[u].used # 0) => frame[t].used = frame[u].used

\* the chunks returned by the chunk_pages call f that were cut from page p
CutFrom(f, p) == SelectSeq(f.chunks, LAMBDA c : c.page = p.page)

(***************************************************************************)
(* C26.  In one chunk_pages call, in the default and in the agentic mode:  *)
(* a page of white space only gives no chunk; every chunk has the page     *)
(* number and the pdf_name of the page it was cut from; the chunks are in  *)
(* the order of the pages; the chunk_ids are 0, 1, ..., n-1 in output      *)
(* order; and every chunk has the fields text, page, chunk_id, pdf_name.   *)
(***************************************************************************)
C26_ChunkBookkeeping ==
    (done.op = "chunk_pages" /\ done.at = "done")
      => /\ \A i \in 1..Len(done.chunks) :
               /\ DOMAIN done.chunks[i] = {"text", "page", "chunk_id", "pdf_name"}
               /\ done.chunks[i].chunk_id = i - 1
               /\ \E k \in 1..Len(done.pages_data) :
                     /\ done.pages_data[k].page = done.chunks[i].page
                     /\ done.pages_data[k].pdf_name = done.chunks[i].pdf_name
                     /\ done.pages_data[k].text = done.chunks[i].text.src
                     /\ Strip(done.pages_data[k].text) # <<>>
         /\ \A i \in 1..(Len(done.chunks) - 1) :
               done.chunks[i].page <= done.chunks[i + 1].page
         /\ \A k \in 1..Len(done.pages_data) :
               Strip(done.pages_data[k].text) = <<>> => CutFrom(done, done.pages_data[k]) = <<>>

\* agentic mode: a page of white space only, then a page cut into two chunks
C26_Witness ==
    /\ done.op = "chunk_pages" /\ done.at = "done" /\ done.agentic /\ done.importable
    /\ Len(done.pages_data) = 2
    /\ Strip(done.pages_data[1].text) = <<>>
    /\ Len(done.chunks) = 2
    /\ done.chunks[1].chunk_id = 0 /\ done.chunks[2].chunk_id = 1
    /\ done.chunks[2].page = done.pages_data[2].page
    /\ done.chunks[2].pdf_name = done.pages_data[2].pdf_name

\* the input paragraphs the chunks of merged are made of, in output order
RECURSIVE MadeOf(_)
MadeOf(merged) == IF merged = <<>> THEN <<>> ELSE Head(merged).of \o MadeOf(Tail(merged))

\* the length of paragraphs[a], ..., paragraphs[b] joined by "\n\n"
RECURSIVE JoinedLen(_, _, _)
JoinedLen(paragraphs, a, b) ==
    IF a = b THEN paragraphs[a].len ELSE JoinedLen(paragraphs, a, b - 1) + 2 + paragraphs[b].len

(***************************************************************************)
(* C28.  merge_related_paragraphs joins two adjacent paragraphs only when  *)
(* the joined text has at most max_chunk_size (1200) characters and the    *)
(* judge answered yes (a failure of the judge is a no); so a chunk made of *)
(* two or more paragraphs has at most 1200 characters, and the chunks, in  *)
(* order, hold every input paragraph once, in the input order.             *)
(***************************************************************************)
C28_MergeFailSafe ==
    (done.op = "merge_related_paragraphs" /\ done.at = "done")
      => /\ MadeOf(done.merged) = [i \in 1..Len(done.paragraphs) |-> i]
         /\ \A c \in 1..Len(done.merged) :
               LET of == done.merged[c].of
               IN  /\ done.merged[c].len = JoinedLen(done.paragraphs, of[1], of[Len(of)])
                   /\ Len(of) >= 2 => done.merged[c].len <= 1200
                   /\ \A k \in 2..Len(of) :
                         /\ done.judge[of[k] - 1] \in {"YES", "yes."}
                         /\ JoinedLen(done.paragraphs, of[1], of[k]) <= 1200

\* three paragraphs: the judge fails for the second, which stays apart from
\* the first; on a yes it makes a chunk of exactly 1200 characters with the
\* third
C28_Witness ==
    /\ done.op = "merge_related_paragraphs" /\ done.at = "done"
    /\ Len(done.paragraphs) = 3
    /\ Len(done.merged) = 2
    /\ done.judge[1] = "raise" /\ JoinedLen(done.paragraphs, 1, 2) <= 1200
    /\ done.merged[1].of = <<1>>
    /\ done.merged[2].of = <<2, 3>> /\ done.merged[2].len = 1200

\* ask_text called generate_answer
Asked == response.handler = "ask_text" /\ response.code \in {200, 500}

\* the collaborators a handler called that are one of S
CallsOf(r, S) == SelectSeq(r.calls, LAMBDA name : name \in S)

(***************************************************************************)
(* C21.  When retrieve returns no passage, generate_answer is handed the   *)
(* empty list and returns exactly the not-found sentinel, and the LLM is   *)
(* not called.                                                             *)
(***************************************************************************)
C21_NoPassageNoLlm ==
    (Asked /\ response.retrieved_chunks = <<>>)
      => /\ response.generated
               = <<"Sorry, this is not available in the given NCERT PDF.">>
         /\ CallsOf(response, {"llm"}) = <<>>
         /\ response.code = 200 => response.answer = response.generated
                                      /\ response.sources = <<>>

\* the index holds a passage of a.pdf within the threshold, the request
\* filters on c.pdf, and the LLM would have answered
C21_Witness ==
    /\ Asked /\ response.code = 200
    /\ response.retrieved_chunks = <<>>
    /\ response.given.pdf_filter = Filter("c.pdf")
    /\ response.llm.kind = "text" /\ Strip(response.llm.text) # <<>>
    /\ Len(metadata) >= 1 /\ metadata[1].pdf_name = "a.pdf"
    /\ index.vecs[1] = <<300>>
    /\ response.answer = NOT_FOUND

\* the first elements of the error messages of generate_answer
ErrorHeads ==
    {"Error: GEMINI_API_KEY environment variable is not set. Please configure your Google AI Studio API key.",
     "Error: Invalid Gemini API key. Please check your GEMINI_API_KEY environment variable.",
     "Error: Gemini API quota exceeded. Please check your API usage limits.",
     "Error: Network error connecting to Gemini API. Please check your internet connection.",
     "Error: Failed to generate answer - "}

(***************************************************************************)
(* C22.  For every failure of the LLM call (no key, invalid key, quota,    *)
(* network, any other exception) generate_answer raises nothing and        *)
(* returns an error message, which is never the not-found sentinel.        *)
(***************************************************************************)
C22_LlmFailureDescribed ==
    (Asked /\ response.retrieved_chunks # <<>> /\ response.llm.kind \in {"no_key", "raise"})
      => /\ response.generated # <<>>
         /\ response.generated[1] \in ErrorHeads
         /\ response.generated
               # <<"Sorry, this is not available in the given NCERT PDF.">>
         /\ done.op = "generate_speech" /\ done.text = response.generated
         /\ response.code = 500 => done.raised = "RuntimeError"

\* the LLM call raises an exception whose message is the sentinel text
C22_Witness ==
    /\ Asked /\ response.code = 200
    /\ response.retrieved_chunks # <<>>
    /\ response.llm = Llm("raise", "Exception", NOT_FOUND)
    /\ response.answer = <<"Error: Failed to generate answer - ">> \o NOT_FOUND
    /\ CallsOf(response, {"llm"}) = <<"llm">>

(***************************************************************************)
(* C23.  ask_text with an empty or white-space-only question and           *)
(* tts_generate with an empty or white-space-only text answer 400, call    *)
(* neither the retriever nor the generator nor a speech engine, and change *)
(* no state.                                                               *)
(***************************************************************************)
C23_BlankRejected ==
    [][(/\ response' # response
        /\ response'.handler \in {"ask_text", "tts_generate"}
        /\ \A i \in 1..Len(response'.given.text) : response'.given.text[i] \in {" ", "\n"})
          => /\ response'.code = 400
             /\ response'.calls = <<>>
             /\ UNCHANGED <<index, metadata, indexFile, metadataFile, frame, model>>]_vars

\* a question of white space only was rejected while the corpus on disk was
\* not loaded
C23_Witness ==
    /\ response.handler = "ask_text" /\ response.code = 400
    /\ response.given.text = <<" ", "\n">>
    /\ response.calls = <<>>
    /\ index = None /\ indexFile.exists /\ model = NoModel
    /\ frame[1].op = "none"

\* the engines the generate_speech call f must have tried, in order
Expected(f) ==
    LET first == IF f.engine = "elevenlabs" THEN "elevenlabs"
                 ELSE IF f.engine = "gtts" THEN "gtts" ELSE "pyttsx3"
    IN  IF first # "gtts" /\ first \in f.failing THEN <<first, "gtts">> ELSE <<first>>

\* the generate_speech call f fell back as described
FellBack(f) ==
    /\ f.status = "ok" \/ (f.status = "error" /\ f.raised = "RuntimeError")
    /\ f.tried = Expected(f)
    /\ Len(f.tried) <= 2
    /\ f.status = "ok" => /\ f.engine_used = f.tried[Len(f.tried)]
                           /\ f.engine_used \notin f.failing
    /\ f.status = "error" <=> (f.tried[Len(f.tried)] = "gtts" /\ "gtts" \in f.failing)

\* what ask_text answers after the generate_speech call f
Spoken(f) ==
    response.handler = "ask_text" /\ response.code # 400
      => IF f.status = "ok"
         THEN /\ response.code = 200
              /\ response.tts_engine_used = f.engine_used
              /\ response.answer = response.generated
         ELSE response.code = 500 /\ response.answer = <<>>

\* C30 as stated: every call of generate_speech ends in a result or a
\* RuntimeError, after the engines of its route
C30_AlwaysResultOrRuntimeError ==
    done.op = "generate_speech" => FellBack(done) /\ Spoken(done)

(***************************************************************************)
(* C30.  generate_speech for a text that is not blank ends in a result or  *)
(* a RuntimeError: engine 'elevenlabs' tries ElevenLabs, then gTTS; 'gtts' *)
(* tries gTTS only; any other value tries pyttsx3, then gTTS; engine_used  *)
(* is the engine that made the audio; at most two engines are tried; the   *)
(* call raises RuntimeError only when gTTS itself failed, and ask_text     *)
(* then answers 500 without the answer.  For an empty or white-space-only  *)
(* text it raises ValueError and tries no engine.                          *)
(***************************************************************************)
C30_SpeechFallback ==
    done.op = "generate_speech"
      => IF \A i \in 1..Len(done.text) : done.text[i] \in {" ", "\n"}
         THEN done.status = "error" /\ done.raised = "ValueError" /\ done.tried = <<>>
         ELSE FellBack(done) /\ Spoken(done)

\* ask_text asked for ElevenLabs; it and gTTS failed, and the answer
\* generated was not sent
C30_Witness ==
    /\ done.op = "generate_speech"
    /\ done.engine = "elevenlabs"
    /\ done.failing = {"elevenlabs", "gtts"}
    /\ done.tried = <<"elevenlabs", "gtts">>
    /\ done.raised = "RuntimeError"
    /\ response.handler = "ask_text" /\ response.code = 500
    /\ response.generated # <<>> /\ response.answer = <<>>

====
